---- MODULE Spec2Model ----
(***************************************************************************)
(* Model of the dance generator's autoregressive sampling loop             *)
(* (src/main.js): page initialisation, the generate / stop handlers, the   *)
(* asynchronous step chain runGenerationStep -> setTimeout ->              *)
(* requestAnimationFrame -> runGenerationStep, the mixture sampler and the *)
(* pose smoother.                                                          *)
(*                                                                         *)
(* JavaScript numbers are modelled as exact rationals <<n, d>> (d > 0, in  *)
(* lowest terms) extended with the IEEE specials NaN = <<0,0>>,            *)
(* +Infinity = <<1,0>> and -Infinity = <<-1,0>>.  Rounding error of        *)
(* finite arithmetic is not modelled.                                      *)
(*                                                                         *)
(* The click handlers are taken to run whenever their event is dispatched; *)
(* the disabled flags of the buttons are state the handlers write, not a   *)
(* guard of the model.  Both buttons start disabled (main.js:98 enables    *)
(* the generate button once loading is done, main.js:209 the stop button   *)
(* on start).                                                              *)
(***************************************************************************)
EXTENDS Integers, Sequences, FiniteSets, TLC

(***************************************************************************)
(* Bounds of the model                                                     *)
(***************************************************************************)
\* W: number of vectors in the seed sequence (seq_length of the model input)
W == 2
\* K: number of keypoints of a pose; a flat vector has D = 2*K scalars
NumKeypoints == 1
\* number of successful startGeneration() calls explored
MaxStarts == 2
\* number of steps that get past the inference await explored in one run
MaxSteps == 2
\* the same for the runs of one session at a time, which fill poseHistory
\* and evict from it
MaxLongSteps == 6
\* the same for the runs checked for progress
MaxLiveSteps == 3
\* largest number of weights in the vectors given to sampleFromCategorical
\* when it is called on its own
MaxMixtures == 2

D == 2 * NumKeypoints

\* src/main.js:23
MAX_HISTORY == 5

(***************************************************************************)
(* Numbers                                                                 *)
(***************************************************************************)
NaN == <<0, 0>>
PosInf == <<1, 0>>
NegInf == <<-1, 0>>

Abs(n) == IF n < 0 THEN -n ELSE n

RECURSIVE GCD(_, _)
GCD(a, b) == IF b = 0 THEN a ELSE GCD(b, a % b)

\* the rational n/d (d # 0) in lowest terms with a positive denominator
Rat(n, d) ==
    LET g == GCD(Abs(n), Abs(d))
        s == IF d < 0 THEN -1 ELSE 1
    IN  <<(s * n) \div g, (s * d) \div g>>

Whole(n) == <<n, 1>>
Zero == Whole(0)
One == Whole(1)

IsNaN(a) == a = NaN
IsFinite(a) == a[2] # 0
Sign(a) == IF a[1] > 0 THEN 1 ELSE IF a[1] < 0 THEN -1 ELSE 0

\* a + b
NumAdd(a, b) ==
    IF IsNaN(a) \/ IsNaN(b) THEN NaN
    ELSE IF ~IsFinite(a) /\ ~IsFinite(b) THEN (IF a = b THEN a ELSE NaN)
    ELSE IF ~IsFinite(a) THEN a
    ELSE IF ~IsFinite(b) THEN b
    ELSE Rat(a[1] * b[2] + b[1] * a[2], a[2] * b[2])

\* a * b
NumMul(a, b) ==
    IF IsNaN(a) \/ IsNaN(b) THEN NaN
    ELSE IF ~IsFinite(a) \/ ~IsFinite(b)
         THEN (IF Sign(a) * Sign(b) = 0 THEN NaN
               ELSE IF Sign(a) * Sign(b) > 0 THEN PosInf ELSE NegInf)
    ELSE Rat(a[1] * b[1], a[2] * b[2])

\* a / b for a finite, non-zero b
NumDiv(a, b) == NumMul(a, Rat(b[2], b[1]))

NumSub(a, b) == NumAdd(a, NumMul(Whole(-1), b))

\* a < b (every comparison with NaN is false)
NumLt(a, b) ==
    IF IsNaN(a) \/ IsNaN(b) THEN FALSE
    ELSE IF ~IsFinite(a) THEN a = NegInf /\ b # NegInf
    ELSE IF ~IsFinite(b) THEN b = PosInf
    ELSE a[1] * b[2] < b[1] * a[2]

\* JavaScript's x === 0
IsZero(a) == a = Zero

\* arr[i] for a 0-based index i; an index out of range reads undefined,
\* which every arithmetic use below turns into NaN
At(arr, i) == IF i >= 0 /\ i < Len(arr) THEN arr[i + 1] ELSE NaN

Min2(a, b) == IF a < b THEN a ELSE b
Max2(a, b) == IF a > b THEN a ELSE b

\* Array.prototype.slice / TypedArray.prototype.slice(start, end), 0-based
JsSlice(arr, start, end) ==
    LET len == Len(arr)
        rs == IF start < 0 THEN Max2(len + start, 0) ELSE Min2(start, len)
        re == IF end < 0 THEN Max2(len + end, 0) ELSE Min2(end, len)
        cnt == Max2(re - rs, 0)
    IN  [k \in 1..cnt |-> arr[rs + k]]

(***************************************************************************)
(* Math library functions, tabulated on the arguments the model uses       *)
(***************************************************************************)
\* Math.exp(x), to three decimals
Exp(x) ==
    CASE x = Zero -> One
      [] x = Rat(-1, 2) -> Rat(607, 1000)
      [] x = Whole(-1) -> Rat(368, 1000)
      [] x = Rat(-3, 2) -> Rat(223, 1000)
      [] x = Whole(-2) -> Rat(135, 1000)
      [] x = NegInf -> Zero
      [] x = PosInf -> PosInf
      [] x = NaN -> NaN

\* Math.sqrt(-2.0 * Math.log(u1)): log(0) is -Infinity, so u1 = 0 gives
\* +Infinity; 0.607 ~ e^(-1/2) gives 1 and 0.135 ~ e^(-2) gives 2
SqrtNeg2Log(u1) ==
    CASE u1 = Zero -> PosInf
      [] u1 = Rat(607, 1000) -> One
      [] u1 = Rat(135, 1000) -> Whole(2)

\* Math.cos(2.0 * Math.PI * u2)
Cos2Pi(u2) ==
    CASE u2 = Zero -> One
      [] u2 = Rat(1, 2) -> Whole(-1)

\* Math.max(...arr): -Infinity for no arguments, NaN if any argument is NaN
RECURSIVE MathMax(_)
MathMax(arr) ==
    IF Len(arr) = 0 THEN NegInf
    ELSE LET m == MathMax(Tail(arr))
         IN  IF IsNaN(Head(arr)) \/ IsNaN(m) THEN NaN
             ELSE IF NumLt(m, Head(arr)) THEN Head(arr) ELSE m

\* arr.indexOf(v): 0-based index of the first element === v, or -1
IndexOf(arr, v) ==
    IF IsNaN(v) \/ ~(\E i \in 1..Len(arr) : arr[i] = v) THEN -1
    ELSE (CHOOSE i \in 1..Len(arr) :
              arr[i] = v /\ \A k \in 1..(i - 1) : arr[k] # v) - 1

RECURSIVE SumTo(_, _)
\* arr[0] + ... + arr[i-1], accumulated left to right
SumTo(arr, i) == IF i = 0 THEN Zero ELSE NumAdd(SumTo(arr, i - 1), arr[i])

(***************************************************************************)
(* The mixture sampler (src/main.js:365-455)                               *)
(***************************************************************************)
\* variant of the loop that also stops at a running sum equal to r
RECURSIVE CategoricalScanInclusive(_, _, _, _)
CategoricalScanInclusive(probs, r, i, cumSum) ==
    IF i >= Len(probs) THEN IndexOf(probs, MathMax(probs))
    ELSE LET s == NumAdd(cumSum, probs[i + 1])
         IN  IF NumLt(r, s) \/ r = s THEN i
             ELSE CategoricalScanInclusive(probs, r, i + 1, s)

\* the loop of sampleFromCategorical from index i on, cumSum being the sum
\* accumulated so far; after the loop, probs.indexOf(Math.max(...probs))
RECURSIVE CategoricalScan(_, _, _, _)
CategoricalScan(probs, r, i, cumSum) ==
    IF i >= Len(probs) THEN IndexOf(probs, MathMax(probs))
    ELSE LET s == NumAdd(cumSum, probs[i + 1])
         IN  IF NumLt(r, s) THEN i ELSE CategoricalScan(probs, r, i + 1, s)

\* sampleFromCategorical(probs) with r the value Math.random() returned
sampleFromCategorical(probs, r) == CategoricalScan(probs, r, 0, Zero)

\* the argument sampleFromGaussian gives to Math.log when Math.random()
\* returned u1: the draw itself
LogArgument(u1) == u1

\* sampleFromGaussian(mean, stddev) with u1, u2 the two Math.random() values
sampleFromGaussian(mean, stddev, u1, u2) ==
    LET z0 == NumMul(SqrtNeg2Log(LogArgument(u1)), Cos2Pi(u2))
    IN  NumAdd(mean, NumMul(stddev, z0))

\* variant that applies the softmax at every temperature
MixtureWeightsAlwaysSoftmax(pi, numMixtures, temperature) ==
    LET scaledPi == [i \in 1..numMixtures |->
                         NumDiv(At(pi, i - 1), temperature)]
        maxLogit == MathMax(scaledPi)
        e == [i \in 1..numMixtures |-> Exp(NumSub(scaledPi[i], maxLogit))]
        sumExp == SumTo(e, numMixtures)
    IN  [i \in 1..numMixtures |-> NumDiv(e[i], sumExp)]

\* the weights array sampleFromMixture hands to sampleFromCategorical
MixtureWeights(pi, numMixtures, temperature) ==
    IF temperature # One
    THEN LET scaledPi == [i \in 1..numMixtures |->
                              NumDiv(At(pi, i - 1), temperature)]
             maxLogit == MathMax(scaledPi)
             e == [i \in 1..numMixtures |->
                       Exp(NumSub(scaledPi[i], maxLogit))]
             sumExp == SumTo(e, numMixtures)
         IN  [i \in 1..numMixtures |-> NumDiv(e[i], sumExp)]
    ELSE [i \in 1..numMixtures |-> At(pi, i - 1)]

\* variant that slices from componentIdx without scaling by outputSize
SliceComponentUnscaled(arr, componentIdx, outputSize) ==
    JsSlice(arr, componentIdx, componentIdx + outputSize)

\* arr.slice(componentIdx * outputSize, (componentIdx + 1) * outputSize)
SliceComponent(arr, componentIdx, outputSize) ==
    JsSlice(arr, componentIdx * outputSize, (componentIdx + 1) * outputSize)

\* variant that applies the temperature to the weights only
MixtureLocalsSigmaUnscaled(pi, mu, sigma, outputSize, numMixtures, temperature, rnd) ==
    LET weights == MixtureWeights(pi, numMixtures, temperature)
        componentIdx == sampleFromCategorical(weights, rnd[1])
        selectedMu == SliceComponent(mu, componentIdx, outputSize)
        selectedSigma == SliceComponent(sigma, componentIdx, outputSize)
        scaledSigma == selectedSigma
    IN  [weights |-> weights, componentIdx |-> componentIdx,
         selectedMu |-> selectedMu, selectedSigma |-> selectedSigma,
         scaledSigma |-> scaledSigma,
         sample |->
            [i \in 1..outputSize |->
                sampleFromGaussian(At(selectedMu, i - 1),
                                   At(scaledSigma, i - 1),
                                   rnd[2 * i], rnd[2 * i + 1])]]

\* the locals of sampleFromMixture(pi, mu, sigma, outputSize, numMixtures,
\* temperature) when it returns; rnd is the sequence of values the calls of
\* Math.random() return, in call order: one for the component, then u1, u2
\* for every output dimension
MixtureLocals(pi, mu, sigma, outputSize, numMixtures, temperature, rnd) ==
    LET weights == MixtureWeights(pi, numMixtures, temperature)
        componentIdx == sampleFromCategorical(weights, rnd[1])
        selectedMu == SliceComponent(mu, componentIdx, outputSize)
        selectedSigma == SliceComponent(sigma, componentIdx, outputSize)
        scaledSigma == [i \in 1..Len(selectedSigma) |->
                            NumMul(selectedSigma[i], temperature)]
    IN  [weights |-> weights, componentIdx |-> componentIdx,
         selectedMu |-> selectedMu, selectedSigma |-> selectedSigma,
         scaledSigma |-> scaledSigma,
         sample |->
            [i \in 1..outputSize |->
                sampleFromGaussian(At(selectedMu, i - 1),
                                   At(scaledSigma, i - 1),
                                   rnd[2 * i], rnd[2 * i + 1])]]

\* variant in which sigma is scaled by the temperature in place
MixtureInputsAfterScaledInPlace(pi, mu, sigma, temperature) ==
    [pi |-> pi, mu |-> mu,
     sigma |-> [i \in 1..Len(sigma) |-> NumMul(sigma[i], temperature)]]

\* the contents of the arrays pi, mu and sigma when sampleFromMixture
\* returns: it reads pi[i], copies with slice() and map() and assigns to no
\* element of its arguments
MixtureInputsAfter(pi, mu, sigma, temperature) ==
    [pi |-> pi, mu |-> mu, sigma |-> sigma]

\* the value sampleFromMixture returns
sampleFromMixture(pi, mu, sigma, outputSize, numMixtures, temperature, rnd) ==
    MixtureLocals(pi, mu, sigma, outputSize, numMixtures, temperature,
                  rnd).sample

(***************************************************************************)
(* Pose helpers (src/main.js:226-272, 462-470)                             *)
(***************************************************************************)
\* reshapeKeypoints(flatKeypoints)
reshapeKeypoints(flat) ==
    [k \in 1..((Len(flat) + 1) \div 2) |->
        <<At(flat, 2 * k - 2), At(flat, 2 * k - 1)>>]

\* 0.6 * Math.pow(0.5, j)
HistoryWeight(j) == Rat(3, 5 * (2 ^ j))

\* variant that adds the weighted historical value without scaling the
\* current one down
BlendAdditive(value, historical, weight) ==
    NumAdd(value, NumMul(historical, weight))

\* value * (1 - weight) + historical * weight
Blend(value, historical, weight) ==
    NumAdd(NumMul(value, NumSub(One, weight)), NumMul(historical, weight))

\* variant of the inner loop that visits the history from its oldest entry
\* to the most recent one: the value after the n oldest entries
RECURSIVE SmoothCoordOldestFirst(_, _, _, _, _)
SmoothCoordOldestFirst(newPose, history, i, c, n) ==
    IF n = 0 THEN newPose[i][c]
    ELSE LET prev == SmoothCoordOldestFirst(newPose, history, i, c, n - 1)
             j == Len(history) - n
             historicalPose == history[j + 1]
         IN  IF i > Len(historicalPose)
                \/ (IsZero(historicalPose[i][1]) /\ IsZero(historicalPose[i][2]))
             THEN prev
             ELSE Blend(prev, historicalPose[i][c], HistoryWeight(j))

\* the inner loop of smoothPose for keypoint i (1-based) and coordinate c,
\* after the history entries 0 .. n-1 have been visited
RECURSIVE SmoothCoord(_, _, _, _, _)
SmoothCoord(newPose, history, i, c, n) ==
    IF n = 0 THEN newPose[i][c]
    ELSE LET prev == SmoothCoord(newPose, history, i, c, n - 1)
             historicalPose == history[n]
         IN  IF i > Len(historicalPose)
                \/ (IsZero(historicalPose[i][1]) /\ IsZero(historicalPose[i][2]))
             THEN prev
             ELSE Blend(prev, historicalPose[i][c], HistoryWeight(n - 1))

\* variant without the check for a (0,0) keypoint of the new pose
smoothPoseNoSentinel(newPose, history) ==
    IF Len(history) = 0 THEN newPose
    ELSE [i \in 1..Len(newPose) |->
            <<SmoothCoord(newPose, history, i, 1, Len(history)),
              SmoothCoord(newPose, history, i, 2, Len(history))>>]

\* smoothPose(newPose) reading the given poseHistory
smoothPose(newPose, history) ==
    IF Len(history) = 0 THEN newPose
    ELSE [i \in 1..Len(newPose) |->
            IF IsZero(newPose[i][1]) /\ IsZero(newPose[i][2])
            THEN <<Zero, Zero>>
            ELSE <<SmoothCoord(newPose, history, i, 1, Len(history)),
                   SmoothCoord(newPose, history, i, 2, Len(history))>>]

(***************************************************************************)
(* Inputs of the model                                                     *)
(***************************************************************************)
None == <<>>
Some(x) == <<x>>

Fill(n, v) == [i \in 1..n |-> v]

\* the loaded seed sequence: W pairwise different flat vectors of D scalars
Seed == [t \in 1..W |-> [i \in 1..D |-> Whole(10 * t + i)]]

\* results of session.run: pi, mu, sigma and M = results.mu.dims[1]
PredSingle ==
    [pi |-> <<One>>, mu |-> [i \in 1..D |-> Whole(2 + i)],
     sigma |-> Fill(D, Zero), M |-> 1]
PredTwo ==
    [pi |-> <<Zero, One>>,
     mu |-> Fill(D, Zero) \o [i \in 1..D |-> Whole(5 + i)],
     sigma |-> Fill(D, Zero) \o Fill(D, One), M |-> 2]
PredNegSigma ==
    [pi |-> <<One>>, mu |-> Fill(D, Whole(6)),
     sigma |-> Fill(D, Whole(-1)), M |-> 1]
PredNoComponents ==
    [pi |-> <<>>, mu |-> <<>>, sigma |-> <<>>, M |-> 0]
NoPred ==
    [pi |-> <<>>, mu |-> <<>>, sigma |-> <<>>, M |-> -1]

Predictions == {PredSingle, PredTwo, PredNegSigma, PredNoComponents}

\* the predictions and random streams explored with the full loop
LoopPredictions == {PredSingle, PredNegSigma}

\* values returned by the successive Math.random() calls of one step
Stream(r, u1, u2) ==
    [k \in 1..(1 + 2 * D) |-> IF k = 1 THEN r ELSE IF k % 2 = 0 THEN u1 ELSE u2]
RandomStreams ==
    {Stream(Zero, Rat(607, 1000), Zero),
     Stream(Rat(1, 2), Rat(607, 1000), Rat(1, 2)),
     Stream(Zero, Zero, Zero)}
LoopStreams == {Stream(Zero, Rat(607, 1000), Zero)}

\* the predictions explored with the controls: two components, and a
\* sigma that is not 0
ControlPredictions == {PredTwo, PredNegSigma}

\* prediction and random stream of a step in the runs of one session at a
\* time: the samples are (3,4,..), NaN (0 * Infinity, from u1 = 0) and
\* (5,5,..)
LongInputs ==
    {<<PredSingle, Stream(Zero, Rat(607, 1000), Zero)>>,
     <<PredSingle, Stream(Zero, Zero, Zero)>>,
     <<PredNegSigma, Stream(Zero, Rat(607, 1000), Zero)>>}

\* values of the temperature slider
Temperatures == {One, Whole(2)}

\* predictions whose pi does not sum to 1: raw logits, and weights that
\* sum to 1/2
PredLogits ==
    [pi |-> <<Whole(2), One>>,
     mu |-> Fill(D, One) \o [i \in 1..D |-> Whole(5 + i)],
     sigma |-> Fill(D, One) \o Fill(D, Zero), M |-> 2]
PredQuarters ==
    [pi |-> <<Rat(1, 4), Rat(1, 4)>>,
     mu |-> Fill(D, Whole(2)) \o Fill(D, Whole(3)),
     sigma |-> Fill(D, Zero) \o Fill(D, One), M |-> 2]
CallPredictions == Predictions \cup {PredLogits, PredQuarters}

\* weight vectors and draws for sampleFromCategorical called on its own
WeightValues == {Zero, Rat(1, 4), Rat(1, 2), One, Rat(-1, 4)}
WeightVectors == UNION {[1..m -> WeightValues] : m \in 1..MaxMixtures}
Draws == {Zero, Rat(1, 4), Rat(1, 2), Rat(3, 4)}

\* arguments and draws for sampleFromGaussian called on its own
GaussianMeans == {Zero, Whole(3)}
GaussianStddevs == {Zero, One}
UniformDraws1 == {Zero, Rat(607, 1000), Rat(135, 1000)}
UniformDraws2 == {Zero, Rat(1, 2)}

\* poses and histories for smoothPose called on its own: every keypoint
\* (0,0), (3,4) or (5,0), a pose one keypoint short, and a pose whose first
\* keypoint only is (0,0)
KeypointValues == {<<Zero, Zero>>, <<Whole(3), Whole(4)>>, <<Whole(5), Zero>>}
PoseValues ==
    {Fill(NumKeypoints, kp) : kp \in KeypointValues}
    \cup {Fill(NumKeypoints - 1, <<Whole(3), Whole(4)>>)}
    \cup {[k \in 1..NumKeypoints |->
              IF k = 1 THEN <<Zero, Zero>> ELSE <<Whole(3), Whole(4)>>]}
Histories == UNION {[1..n -> PoseValues] : n \in 0..MAX_HISTORY}

(***************************************************************************)
(* State                                                                   *)
(***************************************************************************)
VARIABLES
    initPc,             \* position of initialize(): loadingModel,
                        \* loadingSeed, ready or failed
    session,            \* TRUE once the inference session exists
    seedSequence,       \* None (null) or Some(the loaded sequence)
    isGenerating,
    animationFrameId,   \* 0 (null) or the id of the last frame request; a
                        \* request is identified by the chain that made it
    poseHistory,        \* most recent first
    currentSequence,    \* None (null) or Some(the pose last handed to draw)
    generateDisabled,   \* generateBtn.disabled
    stopDisabled,       \* stopBtn.disabled
    temperatureSlider,  \* parseFloat(temperatureSlider.value)
    chains,             \* one entry per call of startGeneration that began a
                        \* chain runGenerationStep -> timer -> frame -> ...
    last,               \* what the handler that ran last did; for a step,
                        \* inputSequence is the array as the step left it
    stepCount,          \* number of steps resumed with a prediction so far
    currentModeIndex,   \* 0-based index into visualizationModes
    visualizationMode,  \* visualizer._visualizationMode
    vizModeLabel        \* vizModeLabel.textContent

vars == <<initPc, session, seedSequence, isGenerating, animationFrameId,
          poseHistory, currentSequence, generateDisabled, stopDisabled,
          temperatureSlider, chains, last, stepCount, currentModeIndex,
          visualizationMode, vizModeLabel>>

\* src/main.js:26
visualizationModes == <<"skeleton", "sprite">>

\* the setter of PoseVisualizer.visualizationMode: the mode after the
\* assignment of newMode, mode being the one before
SetVisualizationMode(mode, newMode) ==
    IF newMode = "skeleton" \/ newMode = "sprite" THEN newMode ELSE mode

\* `Mode: ${newMode.charAt(0).toUpperCase() + newMode.slice(1)}`
ModeLabel(newMode) ==
    CASE newMode = "skeleton" -> "Mode: Skeleton"
      [] newMode = "sprite" -> "Mode: Sprite"

\* a chain: pc is await (suspended on session.run), timer (setTimeout
\* pending), frame (requestAnimationFrame pending) or done; inputSequence is
\* the array the chain's closures share; appended lists the vectors pushed
\* onto it; stopWhileAwait / stopWhilePending record that stopGeneration ran
\* while the chain was suspended on inference / had a pending callback;
\* sliderMoved records that the temperature slider was moved since the
\* chain's last step, while the step was suspended or its callback pending
NewChain(seq) ==
    [pc |-> "await", inputSequence |-> seq, appended |-> <<>>,
     stopWhileAwait |-> FALSE, stopWhilePending |-> FALSE,
     sliderMoved |-> FALSE]

\* a chain that has ended: no closure refers to its array any more, so the
\* array no longer exists
EndedChain ==
    [pc |-> "done", inputSequence |-> <<>>, appended |-> <<>>,
     stopWhileAwait |-> FALSE, stopWhilePending |-> FALSE,
     sliderMoved |-> FALSE]

Live(c) == chains[c].pc # "done"

\* for a direct call of one of the pure functions, op names the function,
\* args are its arguments and, once it returned, result is what it
\* returned (for sampleFromMixture also its locals); argsAfter are the
\* arrays passed to sampleFromMixture as the call left them and second is
\* what a second call on the same arrays, with the same draws, returned.
\* For a step, args are the temperature it read, its draws and whether the
\* slider was moved since the chain's step before, and result are the
\* locals of its sampleFromMixture call
Event(op) ==
    [op |-> op, chain |-> 0,
     ranInference |-> FALSE, drawPose |-> "none", errors |-> 0,
     failed |-> FALSE, pred |-> NoPred, inputSequence |-> <<>>,
     args |-> <<>>, returned |-> FALSE, result |-> <<>>,
     argsAfter |-> <<>>, second |-> <<>>]

Init ==
    /\ initPc = "loadingModel"
    /\ session = FALSE
    /\ seedSequence = None
    /\ isGenerating = FALSE
    /\ animationFrameId = 0
    /\ poseHistory = <<>>
    /\ currentSequence = None
    /\ generateDisabled = TRUE
    /\ stopDisabled = TRUE
    /\ temperatureSlider = One
    /\ chains = <<>>
    /\ last = Event("load")
    /\ stepCount = 0
    /\ currentModeIndex = 1
    /\ visualizationMode = SetVisualizationMode("sprite", "skeleton")
    /\ vizModeLabel = "Mode: Skeleton"

(***************************************************************************)
(* initialize()                                                            *)
(***************************************************************************)
ModelLoaded ==
    /\ UNCHANGED <<stepCount, currentModeIndex, visualizationMode,
                   vizModeLabel>>
    /\ initPc = "loadingModel"
    /\ session' = TRUE
    /\ initPc' = "loadingSeed"
    /\ last' = Event("modelLoaded")
    /\ UNCHANGED <<seedSequence, isGenerating, animationFrameId, poseHistory,
                   currentSequence, generateDisabled, stopDisabled,
                   temperatureSlider, chains>>

ModelLoadFailed ==
    /\ UNCHANGED <<stepCount, currentModeIndex, visualizationMode,
                   vizModeLabel>>
    /\ initPc = "loadingModel"
    /\ initPc' = "failed"
    /\ last' = Event("modelLoadFailed")
    /\ UNCHANGED <<session, seedSequence, isGenerating, animationFrameId,
                   poseHistory, currentSequence, generateDisabled,
                   stopDisabled, temperatureSlider, chains>>

SeedLoaded ==
    /\ UNCHANGED <<stepCount, currentModeIndex, visualizationMode,
                   vizModeLabel>>
    /\ initPc = "loadingSeed"
    /\ seedSequence' = Some(Seed)
    /\ generateDisabled' = FALSE
    /\ currentSequence' = Some(reshapeKeypoints(Seed[Len(Seed)]))
    /\ initPc' = "ready"
    /\ last' = [Event("seedLoaded") EXCEPT !.drawPose = "returned"]
    /\ UNCHANGED <<session, isGenerating, animationFrameId, poseHistory,
                   stopDisabled, temperatureSlider, chains>>

SeedLoadFailed ==
    /\ UNCHANGED <<stepCount, currentModeIndex, visualizationMode,
                   vizModeLabel>>
    /\ initPc = "loadingSeed"
    /\ initPc' = "failed"
    /\ last' = Event("seedLoadFailed")
    /\ UNCHANGED <<session, seedSequence, isGenerating, animationFrameId,
                   poseHistory, currentSequence, generateDisabled,
                   stopDisabled, temperatureSlider, chains>>

(***************************************************************************)
(* stopGeneration() and the stop button                                    *)
(***************************************************************************)
\* stopGeneration() run on the chains ch: cancelAnimationFrame ends the
\* chain whose pending frame request is animationFrameId
StopGeneration(ch) ==
    /\ isGenerating' = FALSE
    /\ generateDisabled' = FALSE
    /\ stopDisabled' = TRUE
    /\ animationFrameId' = 0
    /\ chains' = [c \in DOMAIN ch |->
          IF ch[c].pc = "frame" /\ animationFrameId = c
          THEN EndedChain
          ELSE [ch[c] EXCEPT
                  !.stopWhileAwait = @ \/ ch[c].pc = "await",
                  !.stopWhilePending = @ \/ ch[c].pc \in {"timer", "frame"}]]

StopClick ==
    /\ UNCHANGED <<stepCount, currentModeIndex, visualizationMode,
                   vizModeLabel>>
    /\ StopGeneration(chains)
    /\ last' = Event("stopClick")
    /\ UNCHANGED <<initPc, session, seedSequence, poseHistory,
                   currentSequence, temperatureSlider>>

(***************************************************************************)
(* The generate button and startGeneration()                               *)
(***************************************************************************)
\* variant of startGeneration that keeps the pose history of the session
\* before
StartGenerationKeepsHistory ==
    /\ isGenerating' = TRUE
    /\ generateDisabled' = TRUE
    /\ stopDisabled' = FALSE
    /\ poseHistory' = poseHistory
    /\ chains' = Append(chains, NewChain(seedSequence[1]))
    /\ last' = [Event("generateClick") EXCEPT
                   !.chain = Len(chains) + 1, !.ranInference = TRUE]
    /\ UNCHANGED <<initPc, session, seedSequence, animationFrameId,
                   currentSequence, temperatureSlider>>

\* startGeneration() past its guard: isGenerating = true, the buttons,
\* poseHistory = [], inputSequence = [...seedSequence] and the synchronous
\* part of runGenerationStep(inputSequence) up to await session.run
StartGeneration ==
    /\ isGenerating' = TRUE
    /\ generateDisabled' = TRUE
    /\ stopDisabled' = FALSE
    /\ poseHistory' = <<>>
    /\ chains' = Append(chains, NewChain(seedSequence[1]))
    /\ last' = [Event("generateClick") EXCEPT
                   !.chain = Len(chains) + 1, !.ranInference = TRUE]
    /\ UNCHANGED <<initPc, session, seedSequence, animationFrameId,
                   currentSequence, temperatureSlider>>

\* variant of the generate handler without the isGenerating guards
GenerateClickUnguarded ==
    /\ UNCHANGED <<stepCount, currentModeIndex, visualizationMode,
                   vizModeLabel>>
    /\ IF ~session
       THEN /\ last' = [Event("generateClick") EXCEPT !.errors = 1]
            /\ UNCHANGED <<initPc, session, seedSequence, isGenerating,
                           animationFrameId, poseHistory, currentSequence,
                           generateDisabled, stopDisabled, temperatureSlider,
                           chains>>
       ELSE IF seedSequence = None
       THEN /\ last' = Event("generateClick")
            /\ UNCHANGED <<initPc, session, seedSequence, isGenerating,
                           animationFrameId, poseHistory, currentSequence,
                           generateDisabled, stopDisabled, temperatureSlider,
                           chains>>
       ELSE /\ Len(chains) < MaxStarts
            /\ StartGeneration

GenerateClick ==
    /\ UNCHANGED <<stepCount, currentModeIndex, visualizationMode,
                   vizModeLabel>>
    /\ IF ~session
       THEN /\ last' = [Event("generateClick") EXCEPT !.errors = 1]
            /\ UNCHANGED <<initPc, session, seedSequence, isGenerating,
                           animationFrameId, poseHistory, currentSequence,
                           generateDisabled, stopDisabled, temperatureSlider,
                           chains>>
       ELSE IF isGenerating \/ (~session \/ seedSequence = None \/ isGenerating)
       THEN /\ last' = Event("generateClick")
            /\ UNCHANGED <<initPc, session, seedSequence, isGenerating,
                           animationFrameId, poseHistory, currentSequence,
                           generateDisabled, stopDisabled, temperatureSlider,
                           chains>>
       ELSE /\ Len(chains) < MaxStarts
            /\ StartGeneration

SliderInput(t) ==
    /\ UNCHANGED <<stepCount, currentModeIndex, visualizationMode,
                   vizModeLabel>>
    /\ t # temperatureSlider
    /\ temperatureSlider' = t
    /\ chains' = [c \in DOMAIN chains |->
                     IF Live(c) THEN [chains[c] EXCEPT !.sliderMoved = TRUE]
                     ELSE chains[c]]
    /\ last' = Event("sliderInput")
    /\ UNCHANGED <<initPc, session, seedSequence, isGenerating,
                   animationFrameId, poseHistory, currentSequence,
                   generateDisabled, stopDisabled>>

\* a click on the visualization-mode button
VizModeClick ==
    /\ currentModeIndex' = (currentModeIndex + 1) % Len(visualizationModes)
    /\ LET newMode == visualizationModes[currentModeIndex' + 1]
       IN  /\ visualizationMode' =
                 SetVisualizationMode(visualizationMode, newMode)
           /\ vizModeLabel' = ModeLabel(newMode)
    /\ last' = [Event("vizModeClick") EXCEPT
                   !.drawPose = IF currentSequence # None THEN "returned"
                                ELSE "none"]
    /\ UNCHANGED <<initPc, session, seedSequence, isGenerating,
                   animationFrameId, poseHistory, currentSequence,
                   generateDisabled, stopDisabled, temperatureSlider, chains,
                   stepCount>>

(***************************************************************************)
(* runGenerationStep(inputSequence)                                        *)
(***************************************************************************)
\* variants of the window update: push without shift, unshift instead of push
AdvanceNoShift(inputSequence, nextPose) == Append(inputSequence, nextPose)
AdvanceNewestFirst(inputSequence, nextPose) ==
    <<nextPose>> \o Tail(inputSequence)

\* inputSequence.shift(); inputSequence.push(nextPose)
Advance(inputSequence, nextPose) == Append(Tail(inputSequence), nextPose)

\* variant that evicts from the front: the pose just pushed is dropped
PushHistoryDropsNewest(history, newPose) ==
    LET h == <<newPose>> \o history
    IN  IF Len(h) > MAX_HISTORY THEN Tail(h) ELSE h

\* poseHistory.unshift(newPose); if (length > MAX_HISTORY) poseHistory.pop()
PushHistory(history, newPose) ==
    LET h == <<newPose>> \o history
    IN  IF Len(h) > MAX_HISTORY THEN SubSeq(h, 1, Len(h) - 1) ELSE h

\* variant of the catch branch that reports the error without stopping
CatchBranchNoStop(c, ch) ==
    /\ chains' = [ch EXCEPT ![c] = EndedChain]
    /\ UNCHANGED <<isGenerating, generateDisabled, stopDisabled,
                   animationFrameId>>

\* the catch branch of the step of chain c, the chains being ch:
\* stopGeneration(); showError(...)
CatchBranch(c, ch) ==
    StopGeneration([ch EXCEPT ![c] = EndedChain])

\* variant whose catch branch draws the current pose again
InferenceRejectRedraws(c) ==
    /\ UNCHANGED <<stepCount, currentModeIndex, visualizationMode,
                   vizModeLabel>>
    /\ chains[c].pc = "await"
    /\ CatchBranch(c, chains)
    /\ last' = [Event("inferenceReject") EXCEPT
                   !.chain = c, !.errors = 1, !.failed = TRUE,
                   !.drawPose = "returned",
                   !.inputSequence = chains[c].inputSequence]
    /\ UNCHANGED <<initPc, session, seedSequence, poseHistory,
                   currentSequence, temperatureSlider>>

\* session.run rejects while chain c is suspended on it
InferenceReject(c) ==
    /\ UNCHANGED <<stepCount, currentModeIndex, visualizationMode,
                   vizModeLabel>>
    /\ chains[c].pc = "await"
    /\ CatchBranch(c, chains)
    /\ last' = [Event("inferenceReject") EXCEPT
                   !.chain = c, !.errors = 1, !.failed = TRUE,
                   !.inputSequence = chains[c].inputSequence]
    /\ UNCHANGED <<initPc, session, seedSequence, poseHistory,
                   currentSequence, temperatureSlider>>

\* session.run resolves with a result that lacks pi, mu or sigma: reading
\* results.pi.data (or the arrays inside sampleFromMixture) throws
StepMalformed(c) ==
    /\ UNCHANGED <<stepCount, currentModeIndex, visualizationMode,
                   vizModeLabel>>
    /\ chains[c].pc = "await"
    /\ CatchBranch(c, chains)
    /\ last' = [Event("stepMalformed") EXCEPT
                   !.chain = c, !.errors = 1, !.failed = TRUE,
                   !.inputSequence = chains[c].inputSequence]
    /\ UNCHANGED <<initPc, session, seedSequence, poseHistory,
                   currentSequence, temperatureSlider>>

\* variant that requests the animation frame at once, without the 30 ms
\* timer
StepResumeNoTimer(c, pred, rnd) ==
    /\ chains[c].pc = "await"
    /\ stepCount' = stepCount + 1
    /\ LET inputSequence == chains[c].inputSequence
           temperature == temperatureSlider
           locals == MixtureLocals(pred.pi, pred.mu, pred.sigma,
                                   Len(inputSequence[1]), pred.M,
                                   temperature, rnd)
           nextPose == locals.sample
           read == [temperature |-> temperature, rnd |-> rnd,
                    sliderMoved |-> chains[c].sliderMoved]
           newPose == reshapeKeypoints(nextPose)
           history == PushHistory(poseHistory, newPose)
           smoothedPose == smoothPose(newPose, history)
           advanced == [chains EXCEPT
                           ![c].inputSequence = Advance(@, nextPose),
                           ![c].appended = Append(@, nextPose),
                           ![c].stopWhileAwait = FALSE,
                           ![c].sliderMoved = FALSE]
       IN  /\ poseHistory' = history
           /\ currentSequence' = Some(smoothedPose)
           /\ \/ /\ chains' = [advanced EXCEPT ![c].pc = "frame"]
                 /\ last' = [Event("stepResume") EXCEPT
                                  !.chain = c, !.drawPose = "returned",
                                  !.pred = pred,
                                  !.inputSequence =
                                      advanced[c].inputSequence,
                                  !.args = read, !.result = locals]
                 /\ animationFrameId' = c
                 /\ UNCHANGED <<isGenerating, generateDisabled,
                                stopDisabled>>
              \/ /\ CatchBranch(c, advanced)
                 /\ last' = [Event("stepResume") EXCEPT
                                  !.chain = c, !.drawPose = "threw",
                                  !.errors = 1, !.failed = TRUE,
                                  !.pred = pred,
                                  !.inputSequence =
                                      advanced[c].inputSequence,
                                  !.args = read, !.result = locals]
    /\ UNCHANGED <<initPc, session, seedSequence, temperatureSlider,
                   currentModeIndex, visualizationMode, vizModeLabel>>

\* session.run resolves with the prediction pred; rnd are the values of
\* Math.random() during the step; visualizer.drawPose returns or throws
StepResume(c, pred, rnd) ==
    /\ chains[c].pc = "await"
    /\ stepCount' = stepCount + 1
    /\ LET inputSequence == chains[c].inputSequence
           temperature == temperatureSlider
           locals == MixtureLocals(pred.pi, pred.mu, pred.sigma,
                                   Len(inputSequence[1]), pred.M,
                                   temperature, rnd)
           nextPose == locals.sample
           read == [temperature |-> temperature, rnd |-> rnd,
                    sliderMoved |-> chains[c].sliderMoved]
           newPose == reshapeKeypoints(nextPose)
           history == PushHistory(poseHistory, newPose)
           smoothedPose == smoothPose(newPose, history)
           advanced == [chains EXCEPT
                           ![c].inputSequence = Advance(@, nextPose),
                           ![c].appended = Append(@, nextPose),
                           ![c].stopWhileAwait = FALSE,
                           ![c].sliderMoved = FALSE]
       IN  /\ poseHistory' = history
           /\ currentSequence' = Some(smoothedPose)
           /\ \/ /\ chains' = [advanced EXCEPT ![c].pc = "timer"]
                 /\ last' = [Event("stepResume") EXCEPT
                                  !.chain = c, !.drawPose = "returned",
                                  !.pred = pred,
                                  !.inputSequence =
                                      advanced[c].inputSequence,
                                  !.args = read, !.result = locals]
                 /\ UNCHANGED <<isGenerating, animationFrameId,
                                generateDisabled, stopDisabled>>
              \/ /\ CatchBranch(c, advanced)
                 /\ last' = [Event("stepResume") EXCEPT
                                  !.chain = c, !.drawPose = "threw",
                                  !.errors = 1, !.failed = TRUE,
                                  !.pred = pred,
                                  !.inputSequence =
                                      advanced[c].inputSequence,
                                  !.args = read, !.result = locals]
    /\ UNCHANGED <<initPc, session, seedSequence, temperatureSlider,
                   currentModeIndex, visualizationMode, vizModeLabel>>

\* the 30 ms timer of chain c fires: requestAnimationFrame
TimerFire(c) ==
    /\ UNCHANGED <<stepCount, currentModeIndex, visualizationMode,
                   vizModeLabel>>
    /\ chains[c].pc = "timer"
    /\ animationFrameId' = c
    /\ chains' = [chains EXCEPT ![c].pc = "frame"]
    /\ last' = [Event("timerFire") EXCEPT !.chain = c]
    /\ UNCHANGED <<initPc, session, seedSequence, isGenerating, poseHistory,
                   currentSequence, generateDisabled, stopDisabled,
                   temperatureSlider>>

\* variant whose runGenerationStep returns when isGenerating is true
FrameFireInverted(c) ==
    /\ UNCHANGED <<stepCount, currentModeIndex, visualizationMode,
                   vizModeLabel>>
    /\ chains[c].pc = "frame"
    /\ IF isGenerating
       THEN /\ chains' = [chains EXCEPT ![c] = EndedChain]
            /\ last' = [Event("frameFire") EXCEPT !.chain = c]
       ELSE /\ chains' = [chains EXCEPT ![c].pc = "await",
                                        ![c].stopWhileAwait = FALSE]
            /\ last' = [Event("frameFire") EXCEPT
                           !.chain = c, !.ranInference = TRUE]
    /\ UNCHANGED <<initPc, session, seedSequence, isGenerating,
                   animationFrameId, poseHistory, currentSequence,
                   generateDisabled, stopDisabled, temperatureSlider>>

\* the frame callback of chain c runs runGenerationStep up to its await
FrameFire(c) ==
    /\ UNCHANGED <<stepCount, currentModeIndex, visualizationMode,
                   vizModeLabel>>
    /\ chains[c].pc = "frame"
    /\ IF ~isGenerating
       THEN /\ chains' = [chains EXCEPT ![c] = EndedChain]
            /\ last' = [Event("frameFire") EXCEPT !.chain = c]
       ELSE /\ chains' = [chains EXCEPT ![c].pc = "await",
                                        ![c].stopWhileAwait = FALSE]
            /\ last' = [Event("frameFire") EXCEPT
                           !.chain = c, !.ranInference = TRUE]
    /\ UNCHANGED <<initPc, session, seedSequence, isGenerating,
                   animationFrameId, poseHistory, currentSequence,
                   generateDisabled, stopDisabled, temperatureSlider>>

\* the loop with the temperature slider left at its initial value
Next ==
    \/ ModelLoaded
    \/ ModelLoadFailed
    \/ SeedLoaded
    \/ SeedLoadFailed
    \/ GenerateClick
    \/ StopClick
    \/ \E c \in DOMAIN chains : InferenceReject(c)
    \/ \E c \in DOMAIN chains : StepMalformed(c)
    \/ \E c \in DOMAIN chains, pred \in LoopPredictions, rnd \in LoopStreams :
          stepCount < MaxSteps /\ StepResume(c, pred, rnd)
    \/ \E c \in DOMAIN chains : TimerFire(c)
    \/ \E c \in DOMAIN chains : FrameFire(c)

Spec == Init /\ [][Next]_vars

\* one session at a time: no stop click and no inference failure, so a new
\* session starts only after drawPose threw; up to MaxLongSteps steps
LongNext ==
    \/ ModelLoaded
    \/ SeedLoaded
    \/ GenerateClick
    \/ \E c \in DOMAIN chains, in \in LongInputs :
          stepCount < MaxLongSteps /\ StepResume(c, in[1], in[2])
    \/ \E c \in DOMAIN chains : TimerFire(c)
    \/ \E c \in DOMAIN chains : FrameFire(c)

LongSpec == Init /\ [][LongNext]_vars

\* a pending inference of the full loop resumes, within the explored
\* number of steps
LiveStep ==
    \E c \in DOMAIN chains, pred \in LoopPredictions, rnd \in LoopStreams :
        stepCount < MaxLiveSteps /\ StepResume(c, pred, rnd)

\* one session at a time again, with the predictions and draws of the
\* full loop and up to MaxLiveSteps steps, when the browser lets every
\* inference that can complete, every pending timer and every pending
\* frame callback eventually run
LiveNext ==
    \/ ModelLoaded
    \/ SeedLoaded
    \/ GenerateClick
    \/ LiveStep
    \/ \E c \in DOMAIN chains : TimerFire(c)
    \/ \E c \in DOMAIN chains : FrameFire(c)

\* LiveStep can be taken: some chain waits at its await (StepResume has no
\* other condition and always changes stepCount)
LiveStepEnabled ==
    \E c \in DOMAIN chains :
        stepCount < MaxLiveSteps /\ chains[c].pc = "await"

\* weak fairness of LiveStep is stated by its definition, with
\* LiveStepEnabled for ENABLED <<LiveStep>>_vars
LiveSpec ==
    /\ Init
    /\ [][LiveNext]_vars
    /\ ([]<>(~LiveStepEnabled) \/ []<><<LiveStep>>_vars)
    /\ WF_vars(\E c \in DOMAIN chains : TimerFire(c))
    /\ WF_vars(\E c \in DOMAIN chains : FrameFire(c))

\* the controls of the page during one session at a time: the temperature
\* slider and the visualization-mode button, no stop click and no
\* inference failure
ControlsNext ==
    \/ ModelLoaded
    \/ SeedLoaded
    \/ GenerateClick
    \/ \E t \in Temperatures : SliderInput(t)
    \/ VizModeClick
    \/ \E c \in DOMAIN chains, pred \in ControlPredictions,
          rnd \in LoopStreams :
          stepCount < MaxSteps /\ StepResume(c, pred, rnd)
    \/ \E c \in DOMAIN chains : TimerFire(c)
    \/ \E c \in DOMAIN chains : FrameFire(c)

ControlsSpec == Init /\ [][ControlsNext]_vars

(***************************************************************************)
(* The pure functions called on their own: the initial state holds the     *)
(* arguments of one call (and, for smoothPose, the poseHistory it reads),  *)
(* the action is the call                                                  *)
(***************************************************************************)
CallInit ==
    /\ initPc = "ready"
    /\ session = TRUE
    /\ seedSequence = Some(Seed)
    /\ isGenerating = FALSE
    /\ animationFrameId = 0
    /\ currentSequence = Some(reshapeKeypoints(Seed[Len(Seed)]))
    /\ generateDisabled = FALSE
    /\ stopDisabled = TRUE
    /\ temperatureSlider = One
    /\ chains = <<>>
    /\ stepCount = 0
    /\ currentModeIndex = 1
    /\ visualizationMode = SetVisualizationMode("sprite", "skeleton")
    /\ vizModeLabel = "Mode: Skeleton"
    /\ \/ \E newPose \in PoseValues, history \in Histories :
             /\ poseHistory = history
             /\ last = [Event("smoothPose") EXCEPT
                           !.args = [newPose |-> newPose]]
       \/ \E probs \in WeightVectors, r \in Draws :
             /\ poseHistory = <<>>
             /\ last = [Event("sampleFromCategorical") EXCEPT
                           !.args = [probs |-> probs, r |-> r]]
       \/ \E mean \in GaussianMeans, stddev \in GaussianStddevs,
             u1 \in UniformDraws1, u2 \in UniformDraws2 :
             /\ poseHistory = <<>>
             /\ last = [Event("sampleFromGaussian") EXCEPT
                           !.args = [mean |-> mean, stddev |-> stddev,
                                     u1 |-> u1, u2 |-> u2]]
       \/ \E pred \in CallPredictions, temperature \in Temperatures,
             rnd \in RandomStreams :
             /\ poseHistory = <<>>
             /\ last = [Event("sampleFromMixture") EXCEPT
                           !.args = [pi |-> pred.pi, mu |-> pred.mu,
                                     sigma |-> pred.sigma, outputSize |-> D,
                                     numMixtures |-> pred.M,
                                     temperature |-> temperature,
                                     rnd |-> rnd]]

Return(value) ==
    /\ last' = [last EXCEPT !.returned = TRUE, !.result = value]
    /\ UNCHANGED <<initPc, session, seedSequence, isGenerating,
                   animationFrameId, poseHistory, currentSequence,
                   generateDisabled, stopDisabled, temperatureSlider, chains,
                   stepCount, currentModeIndex, visualizationMode,
                   vizModeLabel>>

CallSmoothPose ==
    /\ last.op = "smoothPose"
    /\ ~last.returned
    /\ Return(smoothPose(last.args.newPose, poseHistory))

CallSampleFromCategorical ==
    /\ last.op = "sampleFromCategorical"
    /\ ~last.returned
    /\ Return(sampleFromCategorical(last.args.probs, last.args.r))

\* the result holds the value returned and the argument Math.log was given
CallSampleFromGaussian ==
    /\ last.op = "sampleFromGaussian"
    /\ ~last.returned
    /\ Return([value |-> sampleFromGaussian(last.args.mean, last.args.stddev,
                                            last.args.u1, last.args.u2),
               logArgument |-> LogArgument(last.args.u1)])

CallSampleFromMixture ==
    /\ last.op = "sampleFromMixture"
    /\ ~last.returned
    /\ last' = [last EXCEPT
                   !.returned = TRUE,
                   !.result =
                       MixtureLocals(last.args.pi, last.args.mu,
                                     last.args.sigma, last.args.outputSize,
                                     last.args.numMixtures,
                                     last.args.temperature, last.args.rnd),
                   !.argsAfter =
                       MixtureInputsAfter(last.args.pi, last.args.mu,
                                          last.args.sigma,
                                          last.args.temperature)]
    /\ UNCHANGED <<initPc, session, seedSequence, isGenerating,
                   animationFrameId, poseHistory, currentSequence,
                   generateDisabled, stopDisabled, temperatureSlider, chains,
                   stepCount, currentModeIndex, visualizationMode,
                   vizModeLabel>>

\* sampleFromMixture called once more on the same arrays, the other
\* arguments and the draws being those of the first call
CallSampleFromMixtureAgain ==
    /\ last.op = "sampleFromMixture"
    /\ last.returned
    /\ last.second = None
    /\ last' = [last EXCEPT
                   !.second =
                       Some(sampleFromMixture(
                               last.argsAfter.pi, last.argsAfter.mu,
                               last.argsAfter.sigma, last.args.outputSize,
                               last.args.numMixtures, last.args.temperature,
                               last.args.rnd)),
                   !.argsAfter =
                       MixtureInputsAfter(last.argsAfter.pi,
                                          last.argsAfter.mu,
                                          last.argsAfter.sigma,
                                          last.args.temperature)]
    /\ UNCHANGED <<initPc, session, seedSequence, isGenerating,
                   animationFrameId, poseHistory, currentSequence,
                   generateDisabled, stopDisabled, temperatureSlider, chains,
                   stepCount, currentModeIndex, visualizationMode,
                   vizModeLabel>>

CallNext ==
    \/ CallSmoothPose
    \/ CallSampleFromCategorical
    \/ CallSampleFromGaussian
    \/ CallSampleFromMixture
    \/ CallSampleFromMixtureAgain

CallSpec == CallInit /\ [][CallNext]_vars

(***************************************************************************)
(* Properties                                                              *)
(***************************************************************************)
StepOps == {"stepResume", "stepMalformed", "inferenceReject"}

\* C1: if stopGeneration ran while a step was suspended on session.run, the
\* completion of that inference leaves the step's inputSequence and
\* poseHistory as they were and does not call visualizer.drawPose.
C1_StoppedStepDiscarded ==
    [][\A c \in DOMAIN chains :
          (/\ chains[c].pc = "await"
           /\ chains[c].stopWhileAwait
           /\ last'.op \in StepOps
           /\ last'.chain = c)
          => /\ last'.inputSequence = chains[c].inputSequence
             /\ poseHistory' = poseHistory
             /\ last'.drawPose = "none"]_vars

\* C2: at most one step is suspended on session.run, and at most one chain
\* of (step, timer, frame callback) is alive, in every reachable state.
C2_AtMostOneStepInFlight ==
    /\ Cardinality({c \in DOMAIN chains : chains[c].pc = "await"}) <= 1
    /\ Cardinality({c \in DOMAIN chains : Live(c)}) <= 1

\* C3: a chain whose next step was pending (in the 30 ms timer or as a frame
\* request) when stopGeneration ran never invokes session.run again.
C3_CancelledStepNeverRuns ==
    \A c \in DOMAIN chains :
        ~(chains[c].stopWhilePending /\ chains[c].pc = "await")

\* C4: every input window has exactly W vectors, as many as the seed, in
\* every reachable state, also right after a failed step.
C4_WindowLengthIsW ==
    /\ \A c \in DOMAIN chains :
           Live(c) => Len(chains[c].inputSequence) = W
    /\ last.op \in StepOps => Len(last.inputSequence) = W

C4_Witness ==
    /\ Len(chains) = 2
    /\ ~Live(1)
    /\ Live(2)
    /\ Len(chains[2].appended) >= 1
    /\ Len(chains[2].inputSequence) = W

\* C5: after N <= W completed steps a window holds the seed's elements
\* N+1..W followed by the N sampled vectors in the order they were produced.
C5_WindowContents ==
    \A c \in DOMAIN chains :
        LET N == Len(chains[c].appended)
        IN  (Live(c) /\ N <= W)
            => chains[c].inputSequence
                   = SubSeq(Seed, N + 1, W) \o chains[c].appended

C5_Witness ==
    \E c \in DOMAIN chains :
        /\ Live(c)
        /\ Len(chains[c].appended) = W
        /\ chains[c].inputSequence = chains[c].appended
        /\ chains[c].appended[1] # chains[c].appended[W]

\* C6: a step that fails because session.run rejects or sampling throws sets
\* isGenerating to false, calls showError once and leaves its chain without a
\* timer or frame callback; while isGenerating is false no runGenerationStep
\* gets past its guard to session.run, so the next inference is the one a
\* later startGeneration issues.
C6_FailureHalts ==
    [][/\ (last'.op \in {"stepMalformed", "inferenceReject"} /\ last'.failed)
          => /\ ~isGenerating'
             /\ last'.errors = 1
             /\ chains'[last'.chain].pc = "done"
       /\ (~isGenerating /\ last'.ranInference)
          => last'.op = "generateClick"]_vars

C6_Witness ==
    /\ last.op \in {"stepMalformed", "inferenceReject"}
    /\ last.failed
    /\ ~isGenerating
    /\ \E c \in DOMAIN chains : Live(c)

\* C7: a step either completes (window advanced, poseHistory updated,
\* drawPose returned) or, when any part of it threw, leaves its window and
\* poseHistory exactly as they were before the step.
C7_StepAllOrNothing ==
    [][\A c \in DOMAIN chains :
          (last'.op \in StepOps /\ last'.chain = c /\ chains[c].pc = "await")
          => IF last'.failed
             THEN /\ last'.inputSequence = chains[c].inputSequence
                  /\ poseHistory' = poseHistory
             ELSE /\ last'.inputSequence # chains[c].inputSequence
                  /\ Len(poseHistory') >= 1
                  /\ last'.drawPose = "returned"]_vars

\* C8: a step whose prediction has no mixture component, whose vectors have
\* no dimension or whose sigma has a negative entry fails in sampling: no
\* sample reaches the window or the renderer.
C8_InvalidDistributionFails ==
    (/\ last.op = "stepResume"
     /\ \/ last.pred.M = 0
        \/ Len(Seed[1]) = 0
        \/ \E i \in 1..Len(last.pred.sigma) :
               NumLt(last.pred.sigma[i], Zero))
    => (last.failed /\ last.drawPose = "none")

\* C9: a generate click while isGenerating is true changes nothing: the
\* flag, poseHistory, the chains with their windows and pending callbacks,
\* animationFrameId and the buttons stay as they are and no inference starts.
C9_StartWhileRunningIsNoOp ==
    [][(last'.op = "generateClick" /\ isGenerating)
          => /\ UNCHANGED <<isGenerating, poseHistory, chains,
                            animationFrameId, currentSequence,
                            generateDisabled, stopDisabled>>
             /\ ~last'.ranInference
             /\ last'.errors = 0]_vars

C9_Witness ==
    /\ last.op = "generateClick"
    /\ last.chain = 0
    /\ isGenerating
    /\ \E c \in DOMAIN chains : chains[c].pc \in {"timer", "frame"}

\* C10: stopGeneration while isGenerating is false changes nothing:
\* isGenerating, animationFrameId, poseHistory, currentSequence and the
\* disabled state of both buttons stay as they are.
C10_StopWhileIdleIsNoOp ==
    [][(last'.op = "stopClick" /\ ~isGenerating)
          => UNCHANGED <<isGenerating, animationFrameId, poseHistory,
                         currentSequence, generateDisabled,
                         stopDisabled>>]_vars

\* C11: every startGeneration() that gets past its guard leaves poseHistory
\* empty and gives the new chain a window equal, element for element, to
\* the loaded seed sequence; once loaded, seedSequence is never changed by
\* a start, a step or a stop.
C11_StartFromSeed ==
    [][/\ (last'.op = "generateClick" /\ last'.chain # 0)
          => /\ poseHistory' = <<>>
             /\ chains'[last'.chain].inputSequence = Seed
             /\ seedSequence' = Some(Seed)
       /\ seedSequence # None => seedSequence' = seedSequence]_vars

\* a restart after a session that sampled and pushed a pose
C11_Witness ==
    /\ last.op = "generateClick"
    /\ last.chain >= 2
    /\ stepCount >= 1
    /\ poseHistory = <<>>
    /\ chains[last.chain].inputSequence = Seed

\* C12: after a stop and a new start only the steps of the session started
\* last sample, write poseHistory and emit a pose: every step that resumes
\* with a prediction belongs to the chain of the latest start.
C12_OnlyLatestSessionSteps ==
    [][last'.op = "stepResume" => last'.chain = Len(chains)]_vars

\* C15: the pose a step emits is the new pose smoothed against poseHistory
\* as it was before the step, which holds the poses of the earlier steps
\* only, the one of the step before at j = 0 (weight 0.6); the new pose is
\* pushed afterwards.
C15_SmoothBeforePush ==
    [][last'.op = "stepResume"
          => LET nextPose == last'.inputSequence[Len(last'.inputSequence)]
                 newPose == reshapeKeypoints(nextPose)
             IN  /\ currentSequence' = Some(smoothPose(newPose, poseHistory))
                 /\ poseHistory' = PushHistory(poseHistory, newPose)]_vars

\* C16: poseHistory never holds more than MAX_HISTORY poses; it lists the
\* poses of the session's steps most recent first, and once more than
\* MAX_HISTORY were pushed the oldest ones are the ones missing.
C16_HistoryBounded ==
    /\ Len(poseHistory) <= MAX_HISTORY
    /\ \A c \in DOMAIN chains :
          Live(c) =>
             LET pushed == chains[c].appended
                 n == Len(pushed)
             IN  /\ Len(poseHistory) = Min2(n, MAX_HISTORY)
                 /\ \A j \in 1..Len(poseHistory) :
                       poseHistory[j] = reshapeKeypoints(pushed[n + 1 - j])

\* a sixth pose was pushed and the evicted first pose differs from the
\* second, which is now the oldest
C16_Witness ==
    \E c \in DOMAIN chains :
       /\ Live(c)
       /\ Len(chains[c].appended) = MAX_HISTORY + 1
       /\ chains[c].appended[1] # chains[c].appended[2]
       /\ Len(poseHistory) = MAX_HISTORY
       /\ poseHistory[MAX_HISTORY] = reshapeKeypoints(chains[c].appended[2])

\* C20: the first step of a session with one component of weight 1, every
\* stddev 0 and temperature 1 samples exactly the means and emits the
\* means reshaped into pairs, whatever Math.random() returns.
C20_ZeroSigmaGivesMeans ==
    [][(/\ last'.op = "stepResume"
        /\ poseHistory = <<>>
        /\ chains[last'.chain].appended = <<>>
        /\ temperatureSlider = One
        /\ last'.pred.M = 1
        /\ last'.pred.pi = <<One>>
        /\ \A i \in 1..Len(last'.pred.sigma) : last'.pred.sigma[i] = Zero)
          => /\ last'.inputSequence[Len(last'.inputSequence)] = last'.pred.mu
             /\ currentSequence' = Some(reshapeKeypoints(last'.pred.mu))]_vars

\* C13: whatever poseHistory holds, smoothPose returns (0,0) at every
\* keypoint index where the new pose is (0,0).
C13_ZeroKeypointStaysZero ==
    (last.op = "smoothPose" /\ last.returned)
    => /\ Len(last.result) = Len(last.args.newPose)
       /\ \A i \in 1..Len(last.args.newPose) :
             last.args.newPose[i] = <<Zero, Zero>>
             => last.result[i] = <<Zero, Zero>>

\* a (0,0) keypoint smoothed against a full history whose most recent pose
\* has that keypoint away from (0,0)
C13_Witness ==
    /\ last.op = "smoothPose"
    /\ last.returned
    /\ Len(poseHistory) = MAX_HISTORY
    /\ Len(last.args.newPose) >= 1
    /\ last.args.newPose[1] = <<Zero, Zero>>
    /\ Len(poseHistory[1]) >= 1
    /\ poseHistory[1][1] = <<Whole(3), Whole(4)>>
    /\ last.result[1] = <<Zero, Zero>>

\* C14: a keypoint that has the same value c, not (0,0), in the new pose
\* and in every pose of poseHistory is returned as c, for every history
\* length 0 .. MAX_HISTORY.
C14_ConstantKeypointKept ==
    (last.op = "smoothPose" /\ last.returned)
    => \A i \in 1..Len(last.args.newPose) :
          (/\ last.args.newPose[i] # <<Zero, Zero>>
           /\ \A j \in 1..Len(poseHistory) :
                 /\ i <= Len(poseHistory[j])
                 /\ poseHistory[j][i] = last.args.newPose[i])
          => last.result[i] = last.args.newPose[i]

\* the constant (3,4) through a full history
C14_Witness ==
    /\ last.op = "smoothPose"
    /\ last.returned
    /\ Len(poseHistory) = MAX_HISTORY
    /\ last.args.newPose = Fill(NumKeypoints, <<Whole(3), Whole(4)>>)
    /\ \A j \in 1..MAX_HISTORY : poseHistory[j] = last.args.newPose
    /\ last.result = last.args.newPose

\* C17: with temperature exactly 1 the weights sampleFromMixture hands to
\* sampleFromCategorical are the numMixtures values of pi, element for
\* element, whether or not they sum to 1.
C17_TemperatureOneKeepsPi ==
    (/\ last.op = "sampleFromMixture"
     /\ last.returned
     /\ last.args.temperature = One)
    => /\ Len(last.result.weights) = last.args.numMixtures
       /\ \A i \in 1..last.args.numMixtures :
             last.result.weights[i] = last.args.pi[i]

\* raw logits (2, 1) at temperature 1
C17_Witness ==
    /\ last.op = "sampleFromMixture"
    /\ last.returned
    /\ last.args.temperature = One
    /\ last.args.pi = <<Whole(2), One>>
    /\ last.result.weights = <<Whole(2), One>>

\* C18: for M >= 1 weights and a draw r, sampleFromCategorical returns the
\* smallest index whose running sum probs[0] + .. + probs[i] is strictly
\* greater than r; if there is none it returns an index of a maximum
\* weight; the result is in 0 .. M-1.
C18_CategoricalIndex ==
    (last.op = "sampleFromCategorical" /\ last.returned)
    => LET probs == last.args.probs
           r == last.args.r
           M == Len(probs)
           qualifying == {i \in 0..(M - 1) : NumLt(r, SumTo(probs, i + 1))}
       IN  /\ last.result \in 0..(M - 1)
           /\ IF qualifying # {}
              THEN /\ last.result \in qualifying
                   /\ \A k \in qualifying : last.result <= k
              ELSE \A k \in 1..M :
                      ~NumLt(probs[last.result + 1], probs[k])

\* no running sum exceeds r and the maximum weight is not at index 0
C18_Witness ==
    /\ last.op = "sampleFromCategorical"
    /\ last.returned
    /\ last.args.probs = <<Zero, Rat(1, 2)>>
    /\ last.args.r = Rat(1, 2)
    /\ last.result = 1

\* C19: for numMixtures >= 1 and outputSize >= 1 (mu and sigma holding
\* numMixtures * outputSize values) the slices of mu and sigma are the
\* positions c*D .. (c+1)*D - 1 of the one sampled component c, inside
\* 0 .. M*D - 1, and the sample has outputSize entries.
C19_ComponentSlices ==
    (/\ last.op = "sampleFromMixture"
     /\ last.returned
     /\ last.args.numMixtures >= 1
     /\ last.args.outputSize >= 1)
    => LET M == last.args.numMixtures
           size == last.args.outputSize
           c == last.result.componentIdx
       IN  /\ c \in 0..(M - 1)
           /\ Len(last.args.mu) = M * size
           /\ Len(last.args.sigma) = M * size
           /\ c * size >= 0
           /\ (c + 1) * size - 1 <= M * size - 1
           /\ last.result.selectedMu =
                 [k \in 1..size |-> last.args.mu[c * size + k]]
           /\ last.result.selectedSigma =
                 [k \in 1..size |-> last.args.sigma[c * size + k]]
           /\ Len(last.result.sample) = size

\* the second of two components was sampled
C19_Witness ==
    /\ last.op = "sampleFromMixture"
    /\ last.returned
    /\ last.args.numMixtures = 2
    /\ last.result.componentIdx = 1
    /\ last.result.selectedMu # SubSeq(last.args.mu, 1, last.args.outputSize)
    /\ Len(last.result.sample) = last.args.outputSize

\* C21: whatever Math.random() returns, 0 included, the value
\* sampleFromGaussian gives to Math.log is strictly greater than 0.
C21_LogArgumentPositive ==
    (last.op = "sampleFromGaussian" /\ last.returned)
    => NumLt(Zero, last.result.logArgument)

Considered(history, i, j) ==
    /\ i <= Len(history[j + 1])
    /\ history[j + 1][i] # <<Zero, Zero>>

\* the product of 1 - weight over the considered entries k .. Len - 1
RECURSIVE RestShare(_, _, _)
RestShare(history, i, k) ==
    IF k >= Len(history) THEN One
    ELSE IF Considered(history, i, k)
         THEN NumMul(NumSub(One, HistoryWeight(k)),
                     RestShare(history, i, k + 1))
         ELSE RestShare(history, i, k + 1)

\* the share of the considered entry j in the value returned for keypoint
\* i when the entries are blended in from the most recent to the oldest
Share(history, i, j) ==
    NumMul(HistoryWeight(j), RestShare(history, i, j + 1))

\* a non-negative rational in thousandths, rounded down
PerMille(x) == (x[1] * 1000) \div x[2]

\* C25 as claimed: the blends are applied from the oldest considered entry
\* to the most recent one, the most recent last.
C25_OldestFirstBlend ==
    (last.op = "smoothPose" /\ last.returned /\ Len(poseHistory) >= 1)
    => \A i \in 1..Len(last.args.newPose) :
          last.args.newPose[i] # <<Zero, Zero>>
          => \A c \in 1..2 :
                last.result[i][c] =
                   SmoothCoordOldestFirst(last.args.newPose, poseHistory,
                                          i, c, Len(poseHistory))

\* C25 amended: the blends are applied from the most recent entry (j = 0)
\* to the oldest considered one, the oldest last: the value returned is
\* the value for the history without its oldest entry, blended with that
\* entry if it is considered; an entry that alone differs from the new
\* value enters with its weight times the 1 - weight of the older
\* considered entries; and the older a considered entry, the smaller this
\* share.
C25_RecentFirstBlend ==
    (last.op = "smoothPose" /\ last.returned /\ Len(poseHistory) >= 1)
    => LET newPose == last.args.newPose
           n == Len(poseHistory)
           oldest == poseHistory[n]
           rest == smoothPose(newPose, SubSeq(poseHistory, 1, n - 1))
       IN  \A i \in 1..Len(newPose) :
              newPose[i] # <<Zero, Zero>>
              => /\ IF Considered(poseHistory, i, n - 1)
                    THEN \A c \in 1..2 :
                            last.result[i][c] =
                               Blend(rest[i][c], oldest[i][c],
                                     HistoryWeight(n - 1))
                    ELSE last.result[i] = rest[i]
                 /\ \A j \in 0..(n - 1) :
                       (/\ Considered(poseHistory, i, j)
                        /\ \A k \in 0..(n - 1) :
                              (k # j /\ Considered(poseHistory, i, k))
                              => poseHistory[k + 1][i] = newPose[i])
                       => \A c \in 1..2 :
                             last.result[i][c] =
                                NumAdd(newPose[i][c],
                                       NumMul(Share(poseHistory, i, j),
                                              NumSub(poseHistory[j + 1][i][c],
                                                     newPose[i][c])))
                 /\ \A j, k \in 0..(n - 1) :
                       (/\ j < k
                        /\ Considered(poseHistory, i, j)
                        /\ Considered(poseHistory, i, k))
                       => PerMille(Share(poseHistory, i, j))
                             > PerMille(Share(poseHistory, i, k))

\* a full history whose most recent entry alone differs from the new pose
C25_Witness ==
    /\ last.op = "smoothPose"
    /\ last.returned
    /\ Len(poseHistory) = MAX_HISTORY
    /\ last.args.newPose = Fill(NumKeypoints, <<Whole(3), Whole(4)>>)
    /\ poseHistory[1] = Fill(NumKeypoints, <<Whole(5), Zero>>)
    /\ \A j \in 2..MAX_HISTORY : poseHistory[j] = last.args.newPose
    /\ last.result[1][1] =
          NumAdd(Whole(3), NumMul(Rat(1017093, 3200000), Whole(2)))

\* C24: a step that completes calls visualizer.drawPose once; a step
\* abandoned because inference failed or its result could not be read
\* calls it not at all; the timer and frame callbacks, the start and the
\* stop of the loop call it not at all.
C24_DrawOncePerStep ==
    /\ (last.op = "stepResume" /\ ~last.failed) => last.drawPose = "returned"
    /\ last.op \in {"stepMalformed", "inferenceReject"}
          => last.drawPose = "none"
    /\ last.op \in {"timerFire", "frameFire", "stopClick", "generateClick"}
          => last.drawPose = "none"

\* a step fails on inference after an earlier step completed and drew
C24_Witness ==
    /\ last.op = "inferenceReject"
    /\ last.drawPose = "none"
    /\ stepCount >= 1
    /\ Len(poseHistory) >= 1

\* C26: the transition in which a step resumes from the await is the one
\* that samples, advances the window, pushes onto poseHistory, draws and
\* leaves the 30 ms timer pending, so no other handler sees a part of it; a
\* stop while the timer is pending changes neither what the step did nor
\* the pending timer, and the chain ends only when its next
\* runGenerationStep finds isGenerating false, without invoking inference.
C26_ResumedStepRunsToCompletion ==
    [][/\ (last'.op = "stepResume" /\ last'.drawPose = "returned")
          => LET c == last'.chain
                 nextPose == last'.inputSequence[Len(last'.inputSequence)]
             IN  /\ chains[c].pc = "await"
                 /\ chains'[c].pc = "timer"
                 /\ chains'[c].inputSequence =
                       Append(Tail(chains[c].inputSequence), nextPose)
                 /\ poseHistory'[1] = reshapeKeypoints(nextPose)
                 /\ currentSequence' # None
       /\ last'.op = "stopClick"
          => /\ poseHistory' = poseHistory
             /\ currentSequence' = currentSequence
             /\ \A c \in DOMAIN chains :
                   chains[c].pc = "timer"
                   => /\ chains'[c].pc = "timer"
                      /\ chains'[c].inputSequence = chains[c].inputSequence
       /\ \A c \in DOMAIN chains :
             (chains[c].pc = "timer" /\ chains'[c].pc # "timer")
             => (last'.op = "timerFire" /\ chains'[c].pc = "frame")
       /\ (last'.op = "frameFire" /\ ~isGenerating)
          => (chains'[last'.chain].pc = "done" /\ ~last'.ranInference)]_vars

\* the next runGenerationStep of a chain that was stopped while its timer
\* was pending has found isGenerating false
C26_Witness ==
    /\ last.op = "frameFire"
    /\ ~last.ranInference
    /\ chains[last.chain].pc = "done"
    /\ ~isGenerating
    /\ Len(poseHistory) >= 1

\* C28: once stopGeneration() ran and no start followed, when no timer and
\* no frame callback is pending and no step is suspended any more,
\* animationFrameId is null.
C28_QuiescentAfterStop ==
    (/\ ~isGenerating
     /\ chains # <<>>
     /\ \A c \in DOMAIN chains : chains[c].pc = "done")
    => animationFrameId = 0

\* C23: a step reads the temperature control once, when it resumes, and that
\* value scales both the mixture weights and the stddevs of the step; moving
\* the slider changes the control only, whatever the steps are doing, so
\* it acts on the steps that read the control afterwards.
C23_TemperatureReadOnce ==
    [][/\ last'.op = "stepResume"
          => /\ last'.args.temperature = temperatureSlider
             /\ last'.result.weights =
                   MixtureWeights(last'.pred.pi, last'.pred.M,
                                  temperatureSlider)
             /\ last'.result.scaledSigma =
                   [i \in 1..Len(last'.result.selectedSigma) |->
                       NumMul(last'.result.selectedSigma[i],
                              temperatureSlider)]
       /\ last'.op = "sliderInput"
          => /\ temperatureSlider' # temperatureSlider
             /\ UNCHANGED <<poseHistory, currentSequence, isGenerating,
                            animationFrameId>>
             /\ \A c \in DOMAIN chains :
                   /\ chains'[c].pc = chains[c].pc
                   /\ chains'[c].inputSequence = chains[c].inputSequence]_vars

\* the slider was moved to 2 while the step was suspended, and the step
\* scaled a sigma of -1 to -2
C23_Witness ==
    /\ last.op = "stepResume"
    /\ last.args.sliderMoved
    /\ last.args.temperature = Whole(2)
    /\ last.pred = PredNegSigma
    /\ last.result.scaledSigma = Fill(D, Whole(-2))

\* C29: every click on the visualization-mode button changes the
\* visualizer's mode to the other one, the first click included, and
\* visualizationModes[currentModeIndex], the visualizer's mode and the mode
\* named in the label agree in every state.
C29_ModeToggles ==
    [][/\ visualizationModes[currentModeIndex + 1] = visualizationMode
       /\ vizModeLabel = ModeLabel(visualizationMode)
       /\ visualizationModes[currentModeIndex' + 1] = visualizationMode'
       /\ vizModeLabel' = ModeLabel(visualizationMode')
       /\ last'.op = "vizModeClick"
          => visualizationMode' # visualizationMode]_vars

\* C27: with no stop and no failing inference, every completed step is
\* followed by another step (as long as the explored number of steps
\* allows one), and a chain invokes its next inference only from its frame
\* callback, which is requested only when its 30 ms timer fires.
C27_StepCycleNeverStalls ==
    /\ \A n \in 1..(MaxLiveSteps - 1) :
          (/\ stepCount = n
           /\ last.op = "stepResume"
           /\ last.drawPose = "returned"
           /\ isGenerating)
          ~> (stepCount > n)
    /\ [][\A c \in DOMAIN chains :
             /\ (chains[c].pc # "await" /\ chains'[c].pc = "await")
                => (chains[c].pc = "frame" /\ last'.op = "frameFire")
             /\ (chains[c].pc # "frame" /\ chains'[c].pc = "frame")
                => (chains[c].pc = "timer" /\ last'.op = "timerFire")]_vars

\* the step after a completed step has resumed, its inference having been
\* invoked by the frame callback
C27_Witness ==
    /\ last.op = "stepResume"
    /\ last.drawPose = "returned"
    /\ isGenerating
    /\ stepCount >= 2
    /\ Len(chains[last.chain].appended) >= 2

====
